---- MODULE Spec2Model ----
(***************************************************************************)
(* Model of src/plots.py (class plots): the key walk over the ROOT file,   *)
(* the per-CBC S-curve loop with its fits, the accumulated lists           *)
(* _histos/_shifts/_widths, the colour and marker choice, the plot range   *)
(* and the sequence of saved canvases.                                     *)
(*                                                                         *)
(* Strings are sequences of tokens ("Final0", "/", "Scurve_Be0_Fe0_Cbc",   *)
(* single digits, suffixes); str.format is concatenation and               *)
(* str.startswith is the sequence prefix test.  Fitted shifts and widths   *)
(* are integers.  A histogram object is identified by its key name         *)
(* (TFile.Get returns the same in-memory object for the same name).        *)
(***************************************************************************)
EXTENDS Integers, Sequences, FiniteSets, TLC

\* ---------------------------------------------------------------- bounds
MaxKeys == 2        \* entries directly under Final0
MaxGroups == 2      \* length of the cbcs argument
MaxCap == 1         \* largest value of the channels argument
MaxDepth == 4       \* longest path of child positions examined in the tree

\* ------------------------------------------------------ program constants
K == 5              \* multiplier of the width in _getXmin/_getXmax
NMarkers == 15      \* count % 15 + 20
MarkerBase == 20
NiceLimit == 19     \* channels > 0 and channels < 19

\* --------------------------------------------------------------- strings
dirname == <<"Final0">>

RECURSIVE Str(_)
Str(n) ==
    IF n < 10 THEN <<ToString(n)>> ELSE Str(n \div 10) \o <<ToString(n % 10)>>

FormatPath(subdir, name) == subdir \o <<"/">> \o name

FormatPrefix(dir, cbc) == dir \o <<"/", "Scurve_Be0_Fe0_Cbc">> \o Str(cbc)

StartsWith(s, p) == Len(p) <= Len(s) /\ SubSeq(s, 1, Len(p)) = p

\* ------------------------------------------------------------- the store
Leaf(n) == [name |-> n, folder |-> FALSE, keys |-> <<>>]
Folder(n, ks) == [name |-> n, folder |-> TRUE, keys |-> ks]

Templates ==
    { Leaf(<<"Scurve_Be0_Fe0_Cbc", "0", "_a">>),
      Leaf(<<"Scurve_Be0_Fe0_Cbc", "1", "_a">>),
      Leaf(<<"Scurve_Be0_Fe0">>),
      Folder(<<"Scurve_Be0_Fe0_Cbc", "0", "_d">>,
             << Leaf(<<"x">>), Folder(<<"e">>, <<>>), Leaf(<<"y">>) >>) }

InjSeqs(S, n) ==
    UNION { { s \in [1..m -> S] : \A i, j \in 1..m : i # j => s[i] # s[j] }
            : m \in 0..n }

\* files with a leaf and the folder Final0 at the top; the names of the keys
\* of one folder are distinct (one cycle per key)
StoresOver(T) ==
    { << Leaf(<<"top">>), Folder(dirname, ks) >> : ks \in InjSeqs(T, MaxKeys) }

Stores == StoresOver(Templates)

\* more entries, for the runs that only walk the file
WalkTemplates ==
    Templates \cup
    { Leaf(<<"Other">>),
      Folder(<<"sub">>,
             << Leaf(<<"Scurve_Be0_Fe0_Cbc", "1", "_a">>),
                Folder(<<"deep">>, << Leaf(<<"z">>) >>) >>) }

WalkStores == StoresOver(WalkTemplates)

FirstSlash(path) ==
    IF \E i \in 1..Len(path) : path[i] = "/"
    THEN CHOOSE i \in 1..Len(path) :
            path[i] = "/" /\ \A j \in 1..(i-1) : path[j] # "/"
    ELSE 0

RECURSIVE Get(_, _)
Get(dir, path) ==
    LET i == FirstSlash(path)
        head == IF i = 0 THEN path ELSE SubSeq(path, 1, i - 1)
        j == CHOOSE x \in 1..Len(dir) :
                dir[x].name = head /\ \A y \in 1..(x-1) : dir[y].name # head
    IN  IF i = 0 THEN dir[j] ELSE Get(dir[j].keys, SubSeq(path, i + 1, Len(path)))

\* variant: a folder's own name is yielded before its content
RECURSIVE GetKeysFromWithFolders(_, _, _, _)
RECURSIVE GetKeys(_, _)
RECURSIVE GetKeysFrom(_, _, _, _)
GetKeysFromWithFolders(rootfile, subdir, obj, i) ==
    IF i > Len(obj) THEN <<>>
    ELSE LET key == obj[i]
             kname == IF subdir # <<>> THEN FormatPath(subdir, key.name)
                                       ELSE key.name
         IN  (IF key.folder THEN <<kname>> \o GetKeys(rootfile, kname) ELSE <<kname>>)
             \o GetKeysFromWithFolders(rootfile, subdir, obj, i + 1)

GetKeysFrom(rootfile, subdir, obj, i) ==
    IF i > Len(obj) THEN <<>>
    ELSE LET key == obj[i]
             kname == IF subdir # <<>> THEN FormatPath(subdir, key.name)
                                       ELSE key.name
         IN  (IF key.folder THEN GetKeys(rootfile, kname) ELSE <<kname>>)
             \o GetKeysFrom(rootfile, subdir, obj, i + 1)

GetKeys(rootfile, subdir) ==
    LET obj == IF subdir # <<>> THEN Get(rootfile, subdir).keys ELSE rootfile
    IN  GetKeysFrom(rootfile, subdir, obj, 1)

\* ------------------------------------------------------ colours, markers
Range(a, b) == [i \in 1..(b - a) |-> a + i - 1]

NiceColors == Range(2, 10)

AllColors ==
    Range(394, 405) \o Range(406, 421) \o Range(422, 437) \o Range(590, 605)
    \o Range(606, 621) \o Range(622, 637) \o Range(791, 911)

GetColor(idx, nice) ==
    LET colors == IF nice THEN NiceColors ELSE AllColors
    IN  colors[(idx % Len(colors)) + 1]

Nice(chan) == chan > 0 /\ chan < NiceLimit

MarkerStyle(cnt) == (cnt % NMarkers) + MarkerBase

\* ------------------------------------------------------------ plot range
RECURSIVE ListMin(_)
ListMin(s) ==
    IF Len(s) = 1 THEN s[1]
    ELSE LET m == ListMin(Tail(s)) IN IF s[1] <= m THEN s[1] ELSE m

RECURSIVE ListMax(_)
ListMax(s) ==
    IF Len(s) = 1 THEN s[1]
    ELSE LET m == ListMax(Tail(s)) IN IF s[1] >= m THEN s[1] ELSE m

Zip(a, b) ==
    [i \in 1..(IF Len(a) <= Len(b) THEN Len(a) ELSE Len(b)) |-> <<a[i], b[i]>>]

\* variant: max where min is meant
GetXminAsMax(sh, wd) ==
    LET z == Zip(sh, wd)
    IN  ListMax([i \in 1..Len(z) |-> z[i][1] - K * z[i][2]])

GetXmin(sh, wd) ==
    LET z == Zip(sh, wd)
    IN  ListMin([i \in 1..Len(z) |-> z[i][1] - K * z[i][2]])

GetXmax(sh, wd) ==
    LET z == Zip(sh, wd)
    IN  ListMax([i \in 1..Len(z) |-> z[i][1] + K * z[i][2]])

\* ------------------------------------------------------------ fit results
FitParams == { <<100, 4>>, <<130, 2>> }

FitOutcomes ==
    { [ok |-> FALSE, shift |-> 0, width |-> 0] }
    \cup { [ok |-> TRUE, shift |-> p[1], width |-> p[2]] : p \in FitParams }

Groups == {0, 1}

CbcLists == UNION { [1..m -> Groups] : m \in 0..MaxGroups }

Caps == (-1)..MaxCap

\* ----------------------------------------------------------------- state
VARIABLES
    rootfile,   \* self._rootfile: the tree of keys
    allKeys,    \* the names _getKeys() yields for this file, in order
    dirKeys,    \* the names _getKeys('Final0') yields for this file, in order
    method,     \* which public method the run calls
    cbcs,       \* argument of getScurvePerCbc
    channels,   \* argument of getScurvePerCbc
    pc,         \* position in the code
    gi,         \* position of the for loop over cbcs (1-based)
    count,      \* local variable count of _drawScurves
    pulled,     \* number of names the generator _getKeys has yielded
    kname,      \* loop variable kname
    histos,     \* self._histos (key names of the histogram objects)
    shifts,     \* self._shifts
    widths,     \* self._widths
    origin,     \* for each entry of histos, the value of gi when appended
    style,      \* colour and marker set on each histogram object
    func,       \* fit result attached to each histogram object
    canvas,     \* primitives on self._canvas
    xrange,     \* last X range set from _getXmin/_getXmax
    evalLens,   \* lengths of _shifts at the evaluations of _getXmin/_getXmax
    attempted,  \* names passed to Fit in the current _drawScurves call
    saved       \* files written by _save, in order

vars == << rootfile, allKeys, dirKeys, method, cbcs, channels, pc, gi, count, pulled, kname,
           histos, shifts, widths, origin, style, func, canvas, xrange,
           evalLens, attempted, saved >>

inputs == << rootfile, allKeys, dirKeys, method, cbcs, channels >>

Cbc == cbcs[gi]

EmptyMap == [k \in {} |-> 0]

MapPut(m, k, v) == [x \in DOMAIN m \cup {k} |-> IF x = k THEN v ELSE m[x]]

Prim(key, obj, opt) == [key |-> key, obj |-> obj, opt |-> opt]

Save(cv, name, logy, view) ==
    [name |-> name, logy |-> logy, canvas |-> cv, gi |-> gi, view |-> view]

AggName(cbc, suffix) == <<"scurves_cbc">> \o Str(cbc) \o suffix

InitWith(files) ==
    /\ rootfile \in files
    /\ allKeys = GetKeys(rootfile, <<>>)
    /\ dirKeys = GetKeys(rootfile, dirname)
    /\ method \in {"getAllPlots", "getScurvePerCbc"}
    /\ cbcs \in CbcLists
    /\ channels \in Caps
    /\ method = "getAllPlots" => (cbcs = <<>> /\ channels = -1)
    /\ pc = IF method = "getAllPlots" THEN "all" ELSE "call"
    /\ gi = 1
    /\ count = 0
    /\ pulled = 0
    /\ kname = <<>>
    /\ histos = <<>>
    /\ shifts = <<>>
    /\ widths = <<>>
    /\ origin = <<>>
    /\ style = EmptyMap
    /\ func = EmptyMap
    /\ canvas = <<>>
    /\ xrange = <<>>
    /\ evalLens = {}
    /\ attempted = <<>>
    /\ saved = <<>>

Init == InitWith(Stores)

\* getAllPlots, one iteration of its loop (lines 36-46)
GetAllPlots ==
    /\ pc = "all"
    /\ LET w == allKeys
       IN  IF pulled < Len(w)
           THEN LET kn == w[pulled + 1]
                    cv == << Prim(kn, "histo", "") >>
                IN  /\ pulled' = pulled + 1
                    /\ kname' = kn
                    /\ canvas' = cv
                    /\ saved' = Append(saved, Save(cv, kn, FALSE, "plot"))
                    /\ pc' = "all"
           ELSE /\ pc' = "done"
                /\ UNCHANGED << pulled, kname, canvas, saved >>
    /\ UNCHANGED << inputs, gi, count, histos, shifts, widths, origin, style,
                    func, xrange, evalLens, attempted >>

\* getScurvePerCbc: the for loop takes the next cbc and enters _drawScurves
\* (lines 57-58, 68-70)
NextCbc ==
    /\ pc = "call"
    /\ gi <= Len(cbcs)
    /\ count' = 0
    /\ pulled' = 0
    /\ attempted' = <<>>
    /\ pc' = "loop"
    /\ UNCHANGED << inputs, gi, kname, histos, shifts, widths, origin, style,
                    func, canvas, xrange, evalLens, saved >>

\* getScurvePerCbc returns when cbcs is exhausted (line 57)
Return ==
    /\ pc = "call"
    /\ gi > Len(cbcs)
    /\ pc' = "done"
    /\ UNCHANGED << inputs, gi, count, pulled, kname, histos, shifts, widths,
                    origin, style, func, canvas, xrange, evalLens, attempted,
                    saved >>

\* variant: the cap test is off by one
CapReachedLate(chan, cnt) == chan > 0 /\ cnt > chan

CapReached(chan, cnt) == chan > 0 /\ cnt >= chan

\* the for statement asks the generator for the next name, then the cap
\* test and the prefix test (lines 73-82)
ForNext ==
    /\ pc = "loop"
    /\ LET w == dirKeys
       IN  IF pulled >= Len(w)
           THEN /\ pc' = "errf"
                /\ UNCHANGED << pulled, kname >>
           ELSE /\ pulled' = pulled + 1
                /\ kname' = w[pulled + 1]
                /\ pc' = IF CapReached(channels, count) THEN "errf"
                         ELSE IF ~StartsWith(w[pulled + 1],
                                             FormatPrefix(dirname, Cbc))
                              THEN "loop"
                              ELSE "body"
    /\ UNCHANGED << inputs, gi, count, histos, shifts, widths, origin, style,
                    func, canvas, xrange, evalLens, attempted, saved >>

FitFailed(o) == ~o.ok

\* variant: count is never advanced
IncrementLost(cnt) == cnt

Increment(cnt) == cnt + 1

\* the loop body for a selected name: fit, try/except, colours, markers,
\* the three appends, the two saves, count += 1 (lines 84-123); fitting the
\* same histogram again from the same start values gives the same result
FitKey ==
    /\ pc = "body"
    /\ \E o \in FitOutcomes :
        /\ kname \in DOMAIN func => o = func[kname]
        /\ func' = MapPut(func, kname, o)
        /\ attempted' = Append(attempted, kname)
        /\ IF FitFailed(o)
           THEN UNCHANGED << style, shifts, widths, histos, origin, canvas,
                             saved, count >>
           ELSE LET cv == << Prim(kname, "histo", "C HIST") >>
                IN
                /\ style' = MapPut(style, kname,
                                   [color |-> GetColor(count, Nice(channels)),
                                    marker |-> MarkerStyle(count)])
                /\ shifts' = Append(shifts, o.shift)
                /\ widths' = Append(widths, o.width)
                /\ histos' = Append(histos, kname)
                /\ origin' = Append(origin, gi)
                /\ canvas' = cv
                /\ saved' = saved \o
                     << Save(<< Prim(kname, "histo", "") >>,
                             kname \o <<"_fit">>, FALSE, "fit"),
                        Save(cv, kname \o <<"_smooth">>, FALSE, "smooth") >>
                /\ count' = Increment(count)
    /\ pc' = "loop"
    /\ UNCHANGED << inputs, gi, pulled, kname, xrange, evalLens >>

\* variant: the range is computed before the loop, for any list
RangeIsSetAlways(h) == TRUE

\* whether the loop of an aggregate drawing routine reaches its idx == 0
\* branch, where _getXmin and _getXmax are called
RangeIsSet(h) == Len(h) > 0

DrawAll(obj, first, rest) ==
    [i \in 1..Len(histos) |-> Prim(histos[i], obj, IF i = 1 THEN first ELSE rest)]

\* variant: the log view is saved before the linear one
DrawAggregateLogFirst(cv, suffix, view) ==
    /\ canvas' = cv
    /\ IF RangeIsSet(histos)
       THEN /\ evalLens' = evalLens \cup {Len(shifts)}
            /\ xrange' = IF Len(shifts) > 0 /\ Len(widths) > 0
                         THEN << GetXmin(shifts, widths), GetXmax(shifts, widths) >>
                         ELSE << "ValueError" >>
       ELSE UNCHANGED << evalLens, xrange >>
    /\ saved' = saved \o
         << Save(cv, AggName(Cbc, suffix \o <<"_log">>), TRUE, view),
            Save(cv, AggName(Cbc, suffix), FALSE, view) >>

\* effect of one aggregate drawing routine on canvas, xrange, evalLens, saved
DrawAggregate(cv, suffix, view) ==
    /\ canvas' = cv
    /\ IF RangeIsSet(histos)
       THEN /\ evalLens' = evalLens \cup {Len(shifts)}
            /\ xrange' = IF Len(shifts) > 0 /\ Len(widths) > 0
                         THEN << GetXmin(shifts, widths), GetXmax(shifts, widths) >>
                         ELSE << "ValueError" >>
       ELSE UNCHANGED << evalLens, xrange >>
    /\ saved' = saved \o
         << Save(cv, AggName(Cbc, suffix), FALSE, view),
            Save(cv, AggName(Cbc, suffix \o <<"_log">>), TRUE, view) >>

\* _draw_all_errf (lines 141-156)
DrawAllErrf ==
    /\ pc = "errf"
    /\ DrawAggregate(DrawAll("histo", "C HIST", "C HIST SAME"), <<>>, "raw")
    /\ pc' = "errf_fit"
    /\ UNCHANGED << inputs, gi, count, pulled, kname, histos, shifts, widths,
                    origin, style, func, attempted >>

\* _draw_all_errf_fit (lines 165-183)
DrawAllErrfFit ==
    /\ pc = "errf_fit"
    /\ DrawAggregate(DrawAll("func", "", "SAME"), <<"_fit">>, "fitted")
    /\ pc' = "errf_fit_meas"
    /\ UNCHANGED << inputs, gi, count, pulled, kname, histos, shifts, widths,
                    origin, style, func, attempted >>

\* _draw_all_errf_fit_meas (lines 192-207), then _drawScurves returns
DrawAllErrfFitMeas ==
    /\ pc = "errf_fit_meas"
    /\ DrawAggregate(DrawAll("histo", "P", "P SAME"), <<"_fit_meas">>, "measured")
    /\ pc' = "call"
    /\ gi' = gi + 1
    /\ UNCHANGED << inputs, count, pulled, kname, histos, shifts, widths,
                    origin, style, func, attempted >>

Next ==
    \/ GetAllPlots
    \/ NextCbc
    \/ Return
    \/ ForNext
    \/ FitKey
    \/ DrawAllErrf
    \/ DrawAllErrfFit
    \/ DrawAllErrfFitMeas

Spec == Init /\ [][Next]_vars

LiveSpec == Spec /\ WF_vars(Next)

\* a run that only calls getAllPlots
WalkInit == InitWith(WalkStores) /\ method = "getAllPlots"

WalkNext == GetAllPlots

WalkSpec == WalkInit /\ [][WalkNext]_vars

TypeOK ==
    /\ Len(histos) = Len(shifts)
    /\ Len(histos) = Len(widths)
    /\ Len(histos) = Len(origin)

\* ------------------------------------------------- auxiliary definitions
InGroup == pc \in {"loop", "body", "errf", "errf_fit", "errf_fit_meas"}

AtAggregate == pc \in {"errf", "errf_fit", "errf_fit_meas"}

AggViews == {"raw", "fitted", "measured"}

IsPrefix(a, b) == Len(a) <= Len(b) /\ SubSeq(b, 1, Len(a)) = a

Matches(name) == StartsWith(name, <<"Final0", "/", "Scurve_Be0_Fe0_Cbc">> \o Str(Cbc))

\* names a run without cap passes to Fit for the current cbc
Matching == SelectSeq(dirKeys, Matches)

FittedNow == { i \in 1..Len(histos) : origin[i] = gi }

\* C1: when the aggregate views of a cbc are drawn, _histos holds only
\* histograms fitted for that cbc, none from a cbc processed earlier.
C1_ResetPerGroup ==
    AtAggregate => \A i \in 1..Len(histos) : origin[i] = gi

\* C2 (as claimed): with channels = N > 0 at most N matching names are passed
\* to Fit, and they are a prefix of the matching names in walk order.
C2_CapBoundsAttempts ==
    InGroup =>
        /\ channels > 0 => Len(attempted) <= channels
        /\ IsPrefix(attempted, Matching)

\* C2 (amended): with channels = N > 0 at most N names are fitted
\* successfully for a cbc (failed fits do not count towards N); the names
\* passed to Fit are a prefix of the matching names in walk order, and with
\* channels <= 0 all matching names are passed to Fit.
C2_CapBoundsFits ==
    InGroup =>
        /\ channels > 0 => (count <= channels /\ Cardinality(FittedNow) <= channels)
        /\ IsPrefix(attempted, Matching)
        /\ (channels <= 0 /\ AtAggregate) => attempted = Matching

C2_Witness ==
    /\ AtAggregate
    /\ channels > 0
    /\ count = channels
    /\ Len(attempted) > channels
    /\ Len(attempted) < Len(Matching)

\* C3 (as claimed): once channels (> 0) names have been fitted for a cbc, no
\* further name is requested from _getKeys: the last name the generator
\* yielded is the last one fitted.
C3_NoPullAfterCap ==
    (InGroup /\ channels > 0 /\ count >= channels) =>
        /\ pulled > 0
        /\ dirKeys[pulled] = attempted[Len(attempted)]

\* C3 (amended): once channels (> 0) names have been fitted successfully for
\* a cbc, at most one further name is requested from _getKeys; that name is
\* not fitted, the loop is left, and count equals channels (so exactly
\* channels names are passed to Fit when every fit succeeds).
C3_OnePullAfterCap ==
    (InGroup /\ channels > 0 /\ count >= channels) =>
        /\ count = channels
        /\ (\A i \in 1..Len(attempted) : func[attempted[i]].ok) =>
              Len(attempted) = channels
        /\ pulled > 0
        /\ \/ dirKeys[pulled] = attempted[Len(attempted)]
           \/ /\ pulled > 1
              /\ dirKeys[pulled - 1] = attempted[Len(attempted)]
              /\ AtAggregate

C3_Witness ==
    /\ AtAggregate
    /\ channels > 0
    /\ count = channels
    /\ pulled > 1
    /\ dirKeys[pulled - 1] = attempted[Len(attempted)]
    /\ pulled < Len(dirKeys)

\* C4: a cbc with no successful fit has none of its aggregate views saved.
C4_EmptyGroupSkipsAggregate ==
    \A i \in 1..Len(saved) :
        saved[i].view \in AggViews => \E j \in 1..Len(origin) : origin[j] = saved[i].gi

\* C5: a failed fit adds nothing to _histos and saves no individual view,
\* the loop goes on, and when the loop of a cbc is over _histos is the
\* sequence of the names fitted successfully for that cbc, in walk order.
C5_EnsembleIsFittedSubsequence ==
    AtAggregate =>
        /\ histos = SelectSeq(attempted, LAMBDA k : func[k].ok)
        /\ \A k \in DOMAIN func :
              ~func[k].ok =>
                  \A i \in 1..Len(saved) :
                      saved[i].view \in {"fit", "smooth"} => saved[i].canvas[1].key # k
        /\ (channels <= 0 => attempted = Matching)

\* C7: no two different histograms drawn in the aggregate views of a cbc have
\* the same colour and marker.
C7_IdentitiesDistinct ==
    AtAggregate =>
        \A i, j \in 1..Len(histos) :
            histos[i] # histos[j] => style[histos[i]] # style[histos[j]]

\* ------------------------------------------ the tree, by child positions
MaxWidth == IF MaxKeys > 3 THEN MaxKeys ELSE 3

IdxPaths == UNION { [1..d -> 1..MaxWidth] : d \in 1..MaxDepth }

RECURSIVE ValidAt(_, _)
ValidAt(dir, ip) ==
    /\ ip[1] <= Len(dir)
    /\ Len(ip) > 1 => (dir[ip[1]].folder /\ ValidAt(dir[ip[1]].keys, Tail(ip)))

RECURSIVE NodeAt(_, _)
NodeAt(dir, ip) ==
    IF Len(ip) = 1 THEN dir[ip[1]] ELSE NodeAt(dir[ip[1]].keys, Tail(ip))

RECURSIVE QName(_, _)
QName(dir, ip) ==
    IF Len(ip) = 1 THEN dir[ip[1]].name
    ELSE dir[ip[1]].name \o <<"/">> \o QName(dir[ip[1]].keys, Tail(ip))

LeafPaths(dir) == { ip \in IdxPaths : ValidAt(dir, ip) /\ ~NodeAt(dir, ip).folder }

FolderPaths(dir) == { ip \in IdxPaths : ValidAt(dir, ip) /\ NodeAt(dir, ip).folder }

\* depth-first order of two different leaves
Before(p, q) ==
    \E n \in 1..MaxDepth :
        /\ n <= Len(p) /\ n <= Len(q)
        /\ \A m \in 1..(n-1) : p[m] = q[m]
        /\ p[n] < q[n]

Qualified(prefix, name) == IF prefix = <<>> THEN name ELSE prefix \o <<"/">> \o name

WalkCorrect(dir, prefix, w) ==
    LET leaves == LeafPaths(dir)
        folders == FolderPaths(dir)
        name == [ip \in leaves \cup folders |-> Qualified(prefix, QName(dir, ip))]
    IN  /\ Len(w) = Cardinality(leaves)
        /\ \A ip \in leaves :
              Cardinality({ i \in 1..Len(w) : w[i] = name[ip] }) = 1
        /\ \A ip \in folders : \A i \in 1..Len(w) : w[i] # name[ip]
        /\ \A p, q \in leaves :
              Before(p, q) =>
                  \A i, j \in 1..Len(w) :
                      (w[i] = name[p] /\ w[j] = name[q]) => i < j

\* C6: _getKeys yields the qualified name of every leaf exactly once, no
\* folder name, in the depth-first order of the keys, both from the file
\* root and from the subdirectory Final0.
C6_WalkYieldsLeaves ==
    /\ WalkCorrect(rootfile, <<>>, allKeys)
    /\ WalkCorrect(Get(rootfile, dirname).keys, dirname, dirKeys)

C6_Witness ==
    /\ pc = "done"
    /\ pulled = Len(allKeys)
    /\ method = "getAllPlots"
    /\ Len(saved) = pulled
    /\ \E ip \in LeafPaths(rootfile) : Len(ip) = 4
    /\ \E ip \in FolderPaths(rootfile) : Len(ip) = 3
    /\ Cardinality(LeafPaths(rootfile)) >= 5

\* C8: for a non-empty _histos the range set by the aggregate drawing
\* routines satisfies xmin <= shift - 5*width and xmax >= shift + 5*width for
\* every entry, with equality for at least one entry on each side.
C8_BoundsTight ==
    (pc \in {"errf_fit", "errf_fit_meas"} /\ Len(histos) > 0) =>
        /\ \A i \in 1..Len(shifts) :
              /\ xrange[1] <= shifts[i] - 5 * widths[i]
              /\ xrange[2] >= shifts[i] + 5 * widths[i]
        /\ \E i \in 1..Len(shifts) : xrange[1] = shifts[i] - 5 * widths[i]
        /\ \E i \in 1..Len(shifts) : xrange[2] = shifts[i] + 5 * widths[i]

C8_Witness ==
    /\ pc = "errf_fit"
    /\ Len(histos) >= 2
    /\ \E i, j \in 1..Len(shifts) :
          /\ i # j
          /\ xrange[1] = shifts[i] - 5 * widths[i]
          /\ xrange[1] < shifts[j] - 5 * widths[j]
          /\ xrange[2] = shifts[j] + 5 * widths[j]
          /\ xrange[2] > shifts[i] + 5 * widths[i]

\* C10: _getXmin and _getXmax are evaluated only while _shifts is non-empty.
C10_BoundsOnNonEmpty ==
    /\ 0 \notin evalLens
    /\ xrange # << "ValueError" >>

C10_Witness ==
    /\ pc = "done"
    /\ evalLens # {}
    /\ \E i \in 1..Len(saved) : saved[i].view \in AggViews /\ saved[i].canvas = <<>>

\* position of a saved file within the processing of its cbc
Stage(e) ==
    IF e.view \in {"fit", "smooth"} THEN 0
    ELSE (IF e.view = "raw" THEN 1 ELSE IF e.view = "fitted" THEN 3 ELSE 5)
         + (IF e.logy THEN 1 ELSE 0)

AggSuffix(st) ==
    (IF st \in {1, 2} THEN <<>> ELSE IF st \in {3, 4} THEN <<"_fit">> ELSE <<"_fit_meas">>)
    \o (IF st \in {2, 4, 6} THEN <<"_log">> ELSE <<>>)

\* the i-th saved file follows the one before it in the order of the code
EntryInOrder(sv, i, g) ==
    LET e == sv[i] IN
    /\ e.gi = g
    /\ g \in 1..Len(cbcs)
    /\ Stage(e) > 0 => e.name = AggName(cbcs[g], AggSuffix(Stage(e)))
    /\ e.view = "fit" =>
          /\ i < Len(sv)
          /\ sv[i + 1].view = "smooth"
          /\ sv[i + 1].canvas[1].key = e.canvas[1].key
          /\ e.name = e.canvas[1].key \o <<"_fit">>
          /\ sv[i + 1].name = e.canvas[1].key \o <<"_smooth">>
    /\ e.view = "smooth" => (i > 1 /\ sv[i - 1].view = "fit")
    /\ IF i = 1 THEN Stage(e) <= 1 /\ g = 1
       ELSE LET a == sv[i - 1]
            IN  \/ a.gi = g /\ Stage(a) = 0 /\ Stage(e) <= 1
                \/ a.gi = g /\ Stage(a) > 0 /\ Stage(e) = Stage(a) + 1
                \/ g = a.gi + 1 /\ Stage(a) = 6 /\ Stage(e) <= 1

\* a step only appends to the saved files, for the cbc being processed and
\* in the order of the code
SavedInOrder ==
    /\ IsPrefix(saved, saved')
    /\ \A i \in (Len(saved) + 1)..Len(saved') : EntryInOrder(saved', i, gi)

AllGroupsSaved ==
    /\ gi = Len(cbcs) + 1
    /\ \A g \in 1..Len(cbcs) :
          \A st \in 1..6 :
              \E i \in 1..Len(saved) : saved[i].gi = g /\ Stage(saved[i]) = st
    /\ Len(cbcs) > 0 => Stage(saved[Len(saved)]) = 6

\* number of steps the run can still take, at most
Remaining ==
    LET w == Len(dirKeys)
        inGroup == IF pc = "call" THEN 2 * w + 6
                   ELSE IF pc = "loop" THEN 2 * (w - pulled) + 5
                   ELSE IF pc = "body" THEN 2 * (w - pulled) + 6
                   ELSE IF pc = "errf" THEN 3
                   ELSE IF pc = "errf_fit" THEN 2
                   ELSE IF pc = "errf_fit_meas" THEN 1
                   ELSE 0
    IN  IF pc = "done" THEN 0
        ELSE IF pc = "all" THEN Len(allKeys) - pulled + 1
        ELSE (Len(cbcs) + 1 - gi) * (2 * w + 7) + inGroup

\* C9: the cbcs are processed one at a time in the given order; for each cbc
\* the '_fit' and '_smooth' views of every fitted histogram are saved before
\* any aggregate view, the aggregate views are saved in the order raw,
\* fitted, measured, each first linear then log, and the run ends after the
\* last cbc: every step brings the end nearer, the end is reached, and at
\* the end all cbcs have their aggregate views saved.
C9_OrderAndTermination ==
    /\ [][method = "getScurvePerCbc" => SavedInOrder]_vars
    /\ []((method = "getScurvePerCbc" /\ pc = "done") => AllGroupsSaved)
    /\ [][Remaining' < Remaining /\ Remaining' >= 0]_vars
    /\ [](pc # "done" => ENABLED Next)

C9_Witness ==
    /\ pc = "done"
    /\ Len(cbcs) = 2
    /\ cbcs[1] # cbcs[2]
    /\ \E i, j \in 1..Len(saved) :
          /\ saved[i].view = "smooth" /\ saved[i].gi = 1
          /\ saved[j].view = "smooth" /\ saved[j].gi = 2

====
